---------------------------- MODULE Spec2Model ----------------------------
(***************************************************************************)
(* Model of the OathPlate calculator: the price snapshot (AppState), the   *)
(* manual field setter (ApplyManualSet), the report engine (ComputeReport),*)
(* the cache file (loadCache / saveCache), the API fetch                    *)
(* (FetchStateFromAPI) and the event handlers of the terminal UI (RunTUI). *)
(*                                                                         *)
(* Go strings are sequences of one-character strings.  Go int64 values are *)
(* four 16-bit limbs, least significant first, in two's complement, so     *)
(* that + - * wrap around exactly as they do in the program.  Times are    *)
(* whole seconds; the zero time.Time is 0.                                 *)
(***************************************************************************)
EXTENDS Integers, Sequences, FiniteSets, TLC

VARIABLES
    pc,       \* "main": before main() has read the cache; "tui": RunTUI's event loop;
              \* "set" / "report": a direct caller of ApplyManualSet / ComputeReport
    state,    \* the AppState held by RunTUI (the snapshot)
    cache,    \* the content of prices_cache.json
    flights,  \* the goroutines started by doFetch that have not yet queued their update
    queue,    \* the updates queued with app.QueueUpdateDraw, oldest first
    now,      \* the clock (time.Now), in seconds
    status,   \* the text of the status view
    report,   \* the Report last computed (shown in the results view)
    last,     \* the handler that ran last, what it was given and the snapshot it found
    budget    \* how many more events the bounded run takes

vars == <<pc, state, cache, flights, queue, now, status, report, last, budget>>

-----------------------------------------------------------------------------
(* int64 *)

Base == 2^16

Limb == 0 .. (Base - 1)

Int64 == [1..4 -> Limb]

\* Sum of two int64 values, wrapping (Go's + on int64).
Add64(a, b) ==
    LET s1 == a[1] + b[1]
        s2 == a[2] + b[2] + (s1 \div Base)
        s3 == a[3] + b[3] + (s2 \div Base)
        s4 == a[4] + b[4] + (s3 \div Base)
    IN  <<s1 % Base, s2 % Base, s3 % Base, s4 % Base>>

\* Two's complement negation, wrapping (Go's unary - on int64).
Neg64(a) ==
    Add64(<<Base - 1 - a[1], Base - 1 - a[2], Base - 1 - a[3], Base - 1 - a[4]>>,
          <<1, 0, 0, 0>>)

\* Difference of two int64 values, wrapping (Go's - on int64).
Sub64(a, b) == Add64(a, Neg64(b))

IsNeg64(a) == a[4] >= Base \div 2

\* The int64 value of a small TLA+ integer (|n| < 2^31).
I64(n) ==
    LET m == IF n < 0 THEN -n ELSE n
        p == <<m % Base, m \div Base, 0, 0>>
    IN  IF n < 0 THEN Neg64(p) ELSE p

\* Product of a small non-negative constant (c < 2^15) and an int64 value,
\* wrapping (Go's * on int64 with a constant operand).
MulConst64(c, a) ==
    LET p1 == c * a[1]
        p2 == c * a[2] + (p1 \div Base)
        p3 == c * a[3] + (p2 \div Base)
        p4 == c * a[4] + (p3 \div Base)
    IN  <<p1 % Base, p2 % Base, p3 % Base, p4 % Base>>

\* Quotient of an unsigned 64-bit value by a small positive divisor.
UQuo64(a, d) ==
    LET r4 == a[4] % d
        n3 == r4 * Base + a[3]
        n2 == (n3 % d) * Base + a[2]
        n1 == (n2 % d) * Base + a[1]
    IN  <<n1 \div d, n2 \div d, n3 \div d, a[4] \div d>>

\* Quotient of an int64 value by a small positive constant, truncated toward
\* zero (Go's / on int64).
Quo64(a, d) ==
    IF IsNeg64(a) THEN Neg64(UQuo64(Neg64(a), d)) ELSE UQuo64(a, d)

\* a < b as signed int64 values.
Less64(a, b) ==
    LET ua == <<a[1], a[2], a[3], (a[4] + Base \div 2) % Base>>
        ub == <<b[1], b[2], b[3], (b[4] + Base \div 2) % Base>>
    IN  \/ ua[4] < ub[4]
        \/ ua[4] = ub[4] /\ ua[3] < ub[3]
        \/ ua[4] = ub[4] /\ ua[3] = ub[3] /\ ua[2] < ub[2]
        \/ ua[4] = ub[4] /\ ua[3] = ub[3] /\ ua[2] = ub[2] /\ ua[1] < ub[1]

MinInt64 == <<0, 0, 0, Base \div 2>>

MaxInt64 == <<Base - 1, Base - 1, Base - 1, Base \div 2 - 1>>

\* Whether an int64 value lies in -2^30 .. 2^30 - 1, where ToInt is defined.
IsSmall(a) ==
    \/ a[3] = 0 /\ a[4] = 0 /\ a[2] < Base \div 4
    \/ a[3] = Base - 1 /\ a[4] = Base - 1 /\ a[2] >= Base - Base \div 4

\* The TLA+ integer of a small int64 value.
ToInt(a) ==
    IF IsNeg64(a)
    THEN LET m == Neg64(a) IN -(m[1] + m[2] * Base)
    ELSE a[1] + a[2] * Base

-----------------------------------------------------------------------------
(* strings *)

S_shale == <<"s", "h", "a", "l", "e">>
S_shard == <<"s", "h", "a", "r", "d">>
S_armor1 == <<"a", "r", "m", "o", "r", "1">>
S_armor2 == <<"a", "r", "m", "o", "r", "2">>
S_armor3 == <<"a", "r", "m", "o", "r", "3">>
S_high == <<"h", "i", "g", "h">>
S_low == <<"l", "o", "w">>
S_avg == <<"a", "v", "g">>

\* strings.Split(s, sep) for a one-character separator: the pieces between
\* the separators, empty pieces included; the empty string gives one empty piece.
RECURSIVE SplitFrom(_, _, _, _)
SplitFrom(s, sep, i, cur) ==
    IF i > Len(s) THEN <<cur>>
    ELSE IF s[i] = sep THEN <<cur>> \o SplitFrom(s, sep, i + 1, <<>>)
    ELSE SplitFrom(s, sep, i + 1, Append(cur, s[i]))

Split(s, sep) == SplitFrom(s, sep, 1, <<>>)

-----------------------------------------------------------------------------
(* data model *)

shardsNeeded == 450
shaleNeeded == 2520
\* 20 * time.Minute, in seconds
cacheTTL == 20 * 60

itemIDShale == 30848
itemIDShard == 30765
armorID1 == 30750
armorID2 == 30753
armorID3 == 30756

\* The zero time.Time (IsZero).
ZeroTime == 0

Triple(h, l, a) == [High |-> h, Low |-> l, Avg |-> a]

\* PriceTriple{}
ZeroTriple == Triple(I64(0), I64(0), I64(0))

ArmorOption(name, id, price) == [Name |-> name, ItemID |-> id, Price |-> price]

\* AppState{}
ZeroState ==
    [Shale |-> ZeroTriple, Shard |-> ZeroTriple, Armors |-> <<>>,
     FetchedAt |-> ZeroTime, Mode |-> ""]

defaultState ==
    [Shale |-> ZeroTriple, Shard |-> ZeroTriple,
     Armors |-> << ArmorOption("Oathplate Helmet", armorID1, ZeroTriple),
                   ArmorOption("Oathplate Chestplate", armorID2, ZeroTriple),
                   ArmorOption("Oathplate Legs", armorID3, ZeroTriple) >>,
     FetchedAt |-> ZeroTime, Mode |-> "manual"]

-----------------------------------------------------------------------------
(* manual set *)

\* A setTriple that keeps avg the midpoint of high and low when one of them is
\* set: a plausible reading of "avg", and not what the code does.
setTripleMidpoint(t, component, val) ==
    IF component = <<>> THEN [t |-> Triple(val, val, val), err |-> ""]
    ELSE IF component = S_high
         THEN [t |-> Triple(val, t.Low, Quo64(Add64(val, t.Low), 2)), err |-> ""]
    ELSE IF component = S_low
         THEN [t |-> Triple(t.High, val, Quo64(Add64(t.High, val), 2)), err |-> ""]
    ELSE IF component = S_avg THEN [t |-> [t EXCEPT !.Avg = val], err |-> ""]
    ELSE [t |-> t, err |-> "unknown component"]

\* The closure setTriple of ApplyManualSet: the triple it leaves and its error
\* ("" is nil).
setTriple(t, component, val) ==
    IF component = <<>> THEN [t |-> Triple(val, val, val), err |-> ""]
    ELSE IF component = S_high THEN [t |-> [t EXCEPT !.High = val], err |-> ""]
    ELSE IF component = S_low THEN [t |-> [t EXCEPT !.Low = val], err |-> ""]
    ELSE IF component = S_avg THEN [t |-> [t EXCEPT !.Avg = val], err |-> ""]
    ELSE [t |-> t, err |-> "unknown component"]

\* ApplyManualSet(&state, field, val): the state it leaves and its error.
ApplyManualSet(st, field, val) ==
    LET parts == Split(field, ".")
        target == parts[1]
        component == IF Len(parts) = 2 THEN parts[2] ELSE <<>>
        idx == CASE target = S_armor1 -> 1
                 [] target = S_armor2 -> 2
                 [] OTHER -> 3
    IN  IF Len(parts) > 2 THEN [state |-> st, err |-> "invalid field format"]
        ELSE IF target = S_shale THEN
            LET r == setTriple(st.Shale, component, val)
            IN  [state |-> [st EXCEPT !.Shale = r.t], err |-> r.err]
        ELSE IF target = S_shard THEN
            LET r == setTriple(st.Shard, component, val)
            IN  [state |-> [st EXCEPT !.Shard = r.t], err |-> r.err]
        ELSE IF target \in {S_armor1, S_armor2, S_armor3} THEN
            IF Len(st.Armors) < 3
            THEN [state |-> st, err |-> "armor list not initialized"]
            ELSE LET r == setTriple(st.Armors[idx].Price, component, val)
                 IN  [state |-> [st EXCEPT !.Armors[idx].Price = r.t], err |-> r.err]
        ELSE [state |-> st, err |-> "unknown field"]

-----------------------------------------------------------------------------
(* compute: state -> report *)

version == "v1.0.0"

ProfitCase(label, sale, tax, net, profit) ==
    [SaleLabel |-> label, SalePrice |-> sale, TaxPaid |-> tax,
     NetAfterTax |-> net, Profit |-> profit]

\* ArmorReport{}
ZeroArmorReport ==
    [Name |-> "", ItemID |-> 0, Sale |-> ZeroTriple, Cases |-> <<>>,
     BestCase |-> ProfitCase("", I64(0), I64(0), I64(0), I64(0))]

computeCase(label, salePrice, ingredientCost) ==
    LET taxPaid == Quo64(MulConst64(2, salePrice), 100)
        net == Sub64(salePrice, taxPaid)
        profit == Sub64(net, ingredientCost)
    IN  ProfitCase(label, salePrice, taxPaid, net, profit)

\* A loop that lets a later case win a tie.
RECURSIVE bestCaseFromLast(_, _, _)
bestCaseFromLast(cases, i, best) ==
    IF i > Len(cases) THEN best
    ELSE bestCaseFromLast(cases, i + 1,
                          IF ~Less64(cases[i].Profit, best.Profit) THEN cases[i] ELSE best)

\* The loop of computeArmor over cases[1:]: the best case so far, from case i on.
RECURSIVE bestCaseFrom(_, _, _)
bestCaseFrom(cases, i, best) ==
    IF i > Len(cases) THEN best
    ELSE bestCaseFrom(cases, i + 1,
                      IF Less64(best.Profit, cases[i].Profit) THEN cases[i] ELSE best)

\* A computeArmor that charges every case the avg ingredient cost.
computeArmorAvgCost(a, ingredientCost) ==
    LET cases == << computeCase("low", a.Price.Low, ingredientCost.Avg),
                    computeCase("avg", a.Price.Avg, ingredientCost.Avg),
                    computeCase("high", a.Price.High, ingredientCost.Avg) >>
    IN  [Name |-> a.Name, ItemID |-> a.ItemID, Sale |-> a.Price, Cases |-> cases,
         BestCase |-> bestCaseFrom(cases, 2, cases[1])]

computeArmor(a, ingredientCost) ==
    LET cases == << computeCase("low", a.Price.Low, ingredientCost.Low),
                    computeCase("avg", a.Price.Avg, ingredientCost.Avg),
                    computeCase("high", a.Price.High, ingredientCost.High) >>
    IN  [Name |-> a.Name, ItemID |-> a.ItemID, Sale |-> a.Price, Cases |-> cases,
         BestCase |-> bestCaseFrom(cases, 2, cases[1])]

\* The loop of profitForLabel: the profit of the first case from i on that
\* carries the label, math.MinInt64 when there is none.
RECURSIVE profitFrom(_, _, _)
profitFrom(cases, label, i) ==
    IF i > Len(cases) THEN MinInt64
    ELSE IF cases[i].SaleLabel = label THEN cases[i].Profit
    ELSE profitFrom(cases, label, i + 1)

profitForLabel(a, label) == profitFrom(a.Cases, label, 1)

\* A loop that lets a later armor win a tie.
RECURSIVE bestByAvgFromLast(_, _, _, _)
bestByAvgFromLast(armors, i, best, bestAvgProfit) ==
    IF i > Len(armors) THEN best
    ELSE LET p == profitForLabel(armors[i], "avg")
         IN  IF ~Less64(p, bestAvgProfit)
             THEN bestByAvgFromLast(armors, i + 1, armors[i], p)
             ELSE bestByAvgFromLast(armors, i + 1, best, bestAvgProfit)

\* The loop of pickBestByAvgProfit over armors[1:].
RECURSIVE bestByAvgFrom(_, _, _, _)
bestByAvgFrom(armors, i, best, bestAvgProfit) ==
    IF i > Len(armors) THEN best
    ELSE LET p == profitForLabel(armors[i], "avg")
         IN  IF Less64(bestAvgProfit, p)
             THEN bestByAvgFrom(armors, i + 1, armors[i], p)
             ELSE bestByAvgFrom(armors, i + 1, best, bestAvgProfit)

pickBestByAvgProfit(armors) ==
    IF Len(armors) = 0 THEN ZeroArmorReport
    ELSE bestByAvgFrom(armors, 2, armors[1], profitForLabel(armors[1], "avg"))

\* The loop of pickBestByHighSale over armors[1:].
RECURSIVE bestByHighFrom(_, _, _)
bestByHighFrom(armors, i, best) ==
    IF i > Len(armors) THEN best
    ELSE bestByHighFrom(armors, i + 1,
                        IF Less64(best.Sale.High, armors[i].Sale.High)
                        THEN armors[i] ELSE best)

pickBestByHighSale(armors) ==
    IF Len(armors) = 0 THEN ZeroArmorReport
    ELSE bestByHighFrom(armors, 2, armors[1])

\* A freshness test that excludes the boundary.
cacheFreshStrict(st, t) ==
    st.FetchedAt # ZeroTime /\ t - st.FetchedAt < cacheTTL

\* An ingredient cost with the two quantities exchanged.
ingredientCostSwapped(st) ==
    [Low |-> Add64(MulConst64(shardsNeeded, st.Shale.Low),
                   MulConst64(shaleNeeded, st.Shard.Low)),
     Avg |-> Add64(MulConst64(shardsNeeded, st.Shale.Avg),
                   MulConst64(shaleNeeded, st.Shard.Avg)),
     High |-> Add64(MulConst64(shardsNeeded, st.Shale.High),
                    MulConst64(shaleNeeded, st.Shard.High))]

\* The age ComputeReport computes, the clock reading t: time.Since(FetchedAt),
\* 0 for the zero time.
cacheAge(st, t) == IF st.FetchedAt # ZeroTime THEN t - st.FetchedAt ELSE 0

cacheFresh(st, t) == st.FetchedAt # ZeroTime /\ cacheAge(st, t) <= cacheTTL

\* The ingredientCost triple of ComputeReport.
ingredientCostOf(st) ==
    [Low |-> Add64(MulConst64(shaleNeeded, st.Shale.Low),
                   MulConst64(shardsNeeded, st.Shard.Low)),
     Avg |-> Add64(MulConst64(shaleNeeded, st.Shale.Avg),
                   MulConst64(shardsNeeded, st.Shard.Avg)),
     High |-> Add64(MulConst64(shaleNeeded, st.Shale.High),
                    MulConst64(shardsNeeded, st.Shard.High))]

\* ComputeReport(state), with the clock reading t that time.Since uses.
ComputeReport(st, t) ==
    LET ingredientCost == ingredientCostOf(st)
        armorReports == [i \in 1..Len(st.Armors) |->
                            computeArmor(st.Armors[i], ingredientCost)]
    IN  [Version |-> version, Mode |-> st.Mode, FetchedAt |-> st.FetchedAt,
         CacheAge |-> cacheAge(st, t), CacheFresh |-> cacheFresh(st, t),
         Shale |-> st.Shale, Shard |-> st.Shard,
         IngredientCost |-> ingredientCost, Armors |-> armorReports,
         BestByAvgProfit |-> pickBestByAvgProfit(armorReports),
         BestByHighSale |-> pickBestByHighSale(armorReports)]

-----------------------------------------------------------------------------
(* input parsing *)

Digits == {"0", "1", "2", "3", "4", "5", "6", "7", "8", "9"}

DigitVal(c) ==
    CASE c = "0" -> 0 [] c = "1" -> 1 [] c = "2" -> 2 [] c = "3" -> 3
      [] c = "4" -> 4 [] c = "5" -> 5 [] c = "6" -> 6 [] c = "7" -> 7
      [] c = "8" -> 8 [] c = "9" -> 9

Spaces == {" ", "\t", "\n", "\r"}

\* strings.ToLower, one character.
LowerChar(c) ==
    CASE c = "A" -> "a" [] c = "B" -> "b" [] c = "E" -> "e" [] c = "F" -> "f"
      [] c = "I" -> "i" [] c = "K" -> "k" [] c = "M" -> "m" [] c = "N" -> "n"
      [] c = "T" -> "t" [] c = "Y" -> "y" [] OTHER -> c

ToLower(s) == [i \in 1..Len(s) |-> LowerChar(s[i])]

\* strings.TrimSpace
RECURSIVE TrimLeft(_)
TrimLeft(s) == IF s # <<>> /\ Head(s) \in Spaces THEN TrimLeft(Tail(s)) ELSE s

RECURSIVE TrimRight(_)
TrimRight(s) ==
    IF s # <<>> /\ s[Len(s)] \in Spaces THEN TrimRight(SubSeq(s, 1, Len(s) - 1)) ELSE s

TrimSpace(s) == TrimRight(TrimLeft(s))

\* strings.ReplaceAll(s, c, "") for a one-character c.
RemoveAll(s, c) == SelectSeq(s, LAMBDA x : x # c)

\* strings.HasSuffix / strings.TrimSuffix for a one-character suffix.
HasSuffix(s, c) == s # <<>> /\ s[Len(s)] = c

TrimSuffix(s, c) == IF HasSuffix(s, c) THEN SubSeq(s, 1, Len(s) - 1) ELSE s

\* The first index from i on that holds no digit.
RECURSIVE SpanDigits(_, _)
SpanDigits(s, i) ==
    IF i <= Len(s) /\ s[i] \in Digits THEN SpanDigits(s, i + 1) ELSE i

\* The number written by the digits s[i], ..., s[j-1], after the digits acc.
RECURSIVE DigitsVal(_, _, _, _)
DigitsVal(s, i, j, acc) ==
    IF i >= j THEN acc ELSE DigitsVal(s, i + 1, j, 10 * acc + DigitVal(s[i]))

Pow10(n) == 10 ^ n

S_inf == <<"i", "n", "f">>
S_infinity == <<"i", "n", "f", "i", "n", "i", "t", "y">>
S_nan == <<"n", "a", "n">>

\* strconv.ParseFloat(s, 64) on a lower-case text without base prefix or
\* underscores: err, or the kind of float and, for a finite one, its sign, its
\* decimal digits as a number (mant) and its decimal exponent: mant * 10^exp.
ParseFloat(s) ==
    LET signed == s # <<>> /\ s[1] \in {"+", "-"}
        neg == s # <<>> /\ s[1] = "-"
        i1 == IF signed THEN 2 ELSE 1
        body == SubSeq(s, i1, Len(s))
        j == SpanDigits(s, i1)
        dot == j <= Len(s) /\ s[j] = "."
        k == IF dot THEN SpanDigits(s, j + 1) ELSE j
        nfrac == IF dot THEN k - (j + 1) ELSE 0
        ndig == (j - i1) + nfrac
        hasExp == k <= Len(s) /\ s[k] = "e"
        e1 == k + 1
        esigned == e1 <= Len(s) /\ s[e1] \in {"+", "-"}
        eneg == e1 <= Len(s) /\ s[e1] = "-"
        e2 == IF esigned THEN e1 + 1 ELSE e1
        e3 == SpanDigits(s, e2)
        expo == IF hasExp
                THEN (IF eneg THEN -1 ELSE 1) * DigitsVal(s, e2, e3, 0)
                ELSE 0
        end == IF hasExp THEN e3 ELSE k
        mant == DigitsVal(s, j + 1, k, DigitsVal(s, i1, j, 0))
        bad == [err |-> TRUE, kind |-> "", neg |-> FALSE, mant |-> 0, exp |-> 0]
    IN  IF body \in {S_inf, S_infinity}
        THEN [err |-> FALSE, kind |-> "inf", neg |-> neg, mant |-> 0, exp |-> 0]
        ELSE IF s = S_nan
        THEN [err |-> FALSE, kind |-> "nan", neg |-> FALSE, mant |-> 0, exp |-> 0]
        ELSE IF ndig = 0 THEN bad
        ELSE IF hasExp /\ e3 = e2 THEN bad
        ELSE IF end # Len(s) + 1 THEN bad
        ELSE [err |-> FALSE, kind |-> "num", neg |-> neg, mant |-> mant,
              exp |-> expo - nfrac]

\* math.Round(mant * 10^exp * multiplier) for the magnitude: to the nearest
\* integer, halves away from zero.
RoundScaled(mant, exp, multiplier) ==
    IF exp >= 0 THEN mant * multiplier * Pow10(exp)
    ELSE (2 * mant * multiplier + Pow10(-exp)) \div (2 * Pow10(-exp))

\* int64(f) for a float64 that no int64 holds (an infinity, a NaN): the result
\* is implementation-specific; amd64 gives the minimum, arm64 saturates
\* (NaN gives 0).
Int64OfSpecial(kind, neg) ==
    IF kind = "nan" THEN {MinInt64, I64(0)}
    ELSE IF neg THEN {MinInt64}
    ELSE {MinInt64, MaxInt64}

\* parseGP(input): err, or the values the conversion can return (one, unless
\* the float is no int64).
parseGP(input) ==
    LET in1 == RemoveAll(TrimSpace(ToLower(input)), ",")
        multiplier == IF HasSuffix(in1, "k") THEN 1000
                      ELSE IF HasSuffix(in1, "m") THEN 1000000
                      ELSE IF HasSuffix(in1, "b") THEN 1000000000
                      ELSE 1
        in2 == IF HasSuffix(in1, "k") THEN TrimSuffix(in1, "k")
               ELSE IF HasSuffix(in1, "m") THEN TrimSuffix(in1, "m")
               ELSE IF HasSuffix(in1, "b") THEN TrimSuffix(in1, "b")
               ELSE in1
        f == ParseFloat(in2)
        n == RoundScaled(f.mant, f.exp, multiplier)
    IN  IF f.err THEN [err |-> TRUE, vals |-> {I64(0)}]
        ELSE IF f.kind # "num"
        THEN [err |-> FALSE, vals |-> Int64OfSpecial(f.kind, f.neg)]
        ELSE [err |-> FALSE, vals |-> {I64(IF f.neg THEN -n ELSE n)}]

-----------------------------------------------------------------------------
(* cache *)

\* prices_cache.json is absent, holds bytes that are no JSON document of the
\* expected types, or holds a JSON object (a record of its keys).
NoFile == [kind |-> "absent"]
BadFile == [kind |-> "corrupt"]
JsonFile(doc) == [kind |-> "json", doc |-> doc]

\* json.Marshal of a PriceTriple, an ArmorOption, an AppState: the JSON keys
\* of the struct tags.
MarshalTriple(t) == [high |-> t.High, low |-> t.Low, avg |-> t.Avg]

MarshalArmor(a) == [name |-> a.Name, item_id |-> a.ItemID, price |-> MarshalTriple(a.Price)]

MarshalState(st) ==
    [shale |-> MarshalTriple(st.Shale), shard |-> MarshalTriple(st.Shard),
     armors |-> [i \in 1..Len(st.Armors) |-> MarshalArmor(st.Armors[i])],
     fetched_at |-> st.FetchedAt, mode |-> st.Mode]

\* json.Unmarshal into a PriceTriple, an ArmorOption, an AppState: a key the
\* object lacks leaves the zero value.
UnmarshalTriple(o) ==
    [High |-> IF "high" \in DOMAIN o THEN o.high ELSE I64(0),
     Low |-> IF "low" \in DOMAIN o THEN o.low ELSE I64(0),
     Avg |-> IF "avg" \in DOMAIN o THEN o.avg ELSE I64(0)]

UnmarshalArmor(o) ==
    [Name |-> IF "name" \in DOMAIN o THEN o.name ELSE "",
     ItemID |-> IF "item_id" \in DOMAIN o THEN o.item_id ELSE 0,
     Price |-> IF "price" \in DOMAIN o THEN UnmarshalTriple(o.price) ELSE ZeroTriple]

UnmarshalState(o) ==
    [Shale |-> IF "shale" \in DOMAIN o THEN UnmarshalTriple(o.shale) ELSE ZeroTriple,
     Shard |-> IF "shard" \in DOMAIN o THEN UnmarshalTriple(o.shard) ELSE ZeroTriple,
     Armors |-> IF "armors" \in DOMAIN o
                THEN [i \in 1..Len(o.armors) |-> UnmarshalArmor(o.armors[i])]
                ELSE <<>>,
     FetchedAt |-> IF "fetched_at" \in DOMAIN o THEN o.fetched_at ELSE ZeroTime,
     Mode |-> IF "mode" \in DOMAIN o THEN o.mode ELSE ""]

\* loadCache(): the CacheFile and whether there is one.
loadCache(file) ==
    IF file.kind = "absent" THEN [c |-> [State |-> ZeroState], ok |-> FALSE]
    ELSE IF file.kind = "corrupt" THEN [c |-> [State |-> ZeroState], ok |-> FALSE]
    ELSE [c |-> [State |-> IF "state" \in DOMAIN file.doc
                           THEN UnmarshalState(file.doc.state)
                           ELSE ZeroState],
          ok |-> TRUE]

\* How os.WriteFile can end: the file written; an error before the file is
\* opened (the file as it was); an error after it was truncated.
WriteOutcomes == {"written", "refused", "truncated"}

\* saveCache(state), ending as w: the file it leaves and its error.
saveCache(st, file, w) ==
    IF w = "written"
    THEN [file |-> JsonFile([state |-> MarshalState(st)]), err |-> ""]
    ELSE IF w = "refused" THEN [file |-> file, err |-> "write"]
    ELSE [file |-> BadFile, err |-> "write"]

\* saveCache of the command-line program, which keeps its PriceCache under the
\* same file name.
saveCacheCLI(c) ==
    JsonFile([prices |-> [shale |-> c.Prices.Shale, shard |-> c.Prices.Shard,
                          sale |-> c.Prices.Sale],
              fetched_at |-> c.FetchedAt])

-----------------------------------------------------------------------------
(* fetch (API) -> state *)

\* What the price API can answer to one request: an error reply, or the latest
\* high and low of the item.
Reply(high, low) == [kind |-> "ok", High |-> high, Low |-> low]
NoReply == [kind |-> "failed"]

\* fetchLatestTriple(id), the API answering r: the triple and the error.
fetchLatestTriple(id, r) ==
    IF r.kind # "ok" THEN [t |-> ZeroTriple, err |-> "fetch"]
    ELSE [t |-> Triple(r.High, r.Low, Quo64(Add64(r.High, r.Low), 2)), err |-> ""]

\* FetchStateFromAPI(), the API answering the five requests with rs[1..5] (a
\* request is only made when those before it succeeded) and the clock reading
\* t when it returns: the state and the error.
FetchStateFromAPI(rs, t) ==
    LET ids == <<itemIDShale, itemIDShard, armorID1, armorID2, armorID3>>
        shale == fetchLatestTriple(itemIDShale, rs[1])
        shard == fetchLatestTriple(itemIDShard, rs[2])
        a1 == fetchLatestTriple(armorID1, rs[3])
        a2 == fetchLatestTriple(armorID2, rs[4])
        a3 == fetchLatestTriple(armorID3, rs[5])
        failed(e) == [state |-> ZeroState, err |-> e]
    IN  IF \E i \in 1..5 : ids[i] = 0 THEN failed("set item IDs first")
        ELSE IF shale.err # "" THEN failed("shale fetch")
        ELSE IF shard.err # "" THEN failed("shard fetch")
        ELSE IF a1.err # "" THEN failed("armor1 fetch")
        ELSE IF a2.err # "" THEN failed("armor2 fetch")
        ELSE IF a3.err # "" THEN failed("armor3 fetch")
        ELSE [state |->
                [Shale |-> shale.t, Shard |-> shard.t,
                 Armors |-> << ArmorOption("Oathplate Helmet", armorID1, a1.t),
                               ArmorOption("Oathplate Chestplate", armorID2, a2.t),
                               ArmorOption("Oathplate Legs", armorID3, a3.t) >>,
                 FetchedAt |-> t, Mode |-> "api"],
              err |-> ""]

-----------------------------------------------------------------------------
(* bounds and inputs *)

\* How many events (keys pressed, clock steps) a run of the UI takes.
MaxEvents == 2
\* How many dots a field path given to ApplyManualSet holds at most.
MaxDots == 2
\* How many armors a snapshot given to ComputeReport holds at most.
MaxArmors == 3

\* The clock when the program starts.
StartTime == 2 * cacheTTL

\* How far the clock moves in one step.
TickSteps == {1, cacheTTL}

\* The fields of the five input widgets.
Dotted(target, component) == target \o <<".">> \o component

TuiFields ==
    {Dotted(S_shale, S_avg), Dotted(S_shard, S_avg), Dotted(S_armor1, S_avg),
     Dotted(S_armor2, S_avg), Dotted(S_armor3, S_avg)}

\* The texts typed into an input widget.
TuiTexts == { <<"7">>, <<"-", "2">>, <<"x">> }

\* The latest prices of the market: shale, shard and the three armors.
MarketReplies ==
    << Reply(I64(9), I64(4)), Reply(I64(30), I64(20)), Reply(I64(1000), I64(900)),
       Reply(I64(1200), I64(1100)), Reply(I64(1100), I64(1000)) >>

\* The answers of the API to one fetch: the market's prices up to a first
\* failed request (no request follows it), or all five.
ReplySeqs ==
    {SubSeq(MarketReplies, 1, n) \o <<NoReply>> : n \in 0..4} \cup {MarketReplies}

\* A snapshot as an earlier run of the program fetched and saved it.
SavedState ==
    [Shale |-> Triple(I64(8), I64(4), I64(6)),
     Shard |-> Triple(I64(28), I64(22), I64(25)),
     Armors |-> << ArmorOption("Oathplate Helmet", armorID1, Triple(I64(990), I64(950), I64(970))),
                   ArmorOption("Oathplate Chestplate", armorID2, Triple(I64(1250), I64(1150), I64(1200))),
                   ArmorOption("Oathplate Legs", armorID3, Triple(I64(1090), I64(1030), I64(1060))) >>,
     FetchedAt |-> StartTime - 60, Mode |-> "api"]

\* The cache file the program can find when it starts: none, an unreadable
\* one, one saved by the command-line program, one saved by the UI.
InitialCaches ==
    { NoFile, BadFile,
      saveCacheCLI([Prices |-> [Shale |-> I64(5), Shard |-> I64(25), Sale |-> I64(1200)],
                    FetchedAt |-> StartTime - 60]),
      saveCache(SavedState, NoFile, "written").file }

\* The field paths given to ApplyManualSet: a first part, then up to MaxDots
\* further parts, each after a dot.
S_ingredientC == <<"i", "n", "g", "r", "e", "d", "i", "e", "n", "t", "C">>
S_mid == <<"m", "i", "d">>

FirstParts == {S_shale, S_shard, S_armor1, S_armor2, S_armor3, S_ingredientC, S_high, <<>>}

NextParts == {S_high, S_low, S_avg, S_mid, <<>>}

RECURSIVE FieldsWithDots(_)
FieldsWithDots(d) ==
    IF d = 0 THEN FirstParts
    ELSE {Dotted(f, c) : f \in FieldsWithDots(d - 1), c \in NextParts}

SetFields == UNION {FieldsWithDots(d) : d \in 0..MaxDots}

\* The values given to ApplyManualSet.
SetVals == {I64(7), I64(-2)}

\* The snapshots given to ApplyManualSet: the default one, a fetched one, and
\* snapshots read from a cache file that holds two armors, or none.
SetStates ==
    {defaultState, SavedState, [SavedState EXCEPT !.Armors = SubSeq(@, 1, 2)], ZeroState}

\* The snapshots and clock readings given to ComputeReport.
ShaleSamples ==
    {ZeroTriple, Triple(I64(30), I64(10), I64(20)),
     Triple(MaxInt64, I64(-3), <<0, 0, 0, 2 ^ 14>>)}

ShardSamples ==
    {ZeroTriple, Triple(I64(200), I64(100), I64(150)),
     Triple(MaxInt64, I64(0), <<0, 0, 0, 2 ^ 14>>)}

ArmorSamples ==
    {Triple(I64(1000000), I64(1), I64(50)),
     Triple(I64(1000000), I64(-1), I64(49)),
     Triple(MaxInt64, MinInt64, <<0, 0, 0, 2 ^ 14>>),
     Triple(I64(300), I64(-50), I64(200)),
     Triple(I64(50), I64(0), I64(49))}

ArmorLists == UNION {[1..n -> ArmorSamples] : n \in 0..MaxArmors}

ProvenanceSamples ==
    {[FetchedAt |-> ZeroTime, Mode |-> "manual"],
     [FetchedAt |-> StartTime, Mode |-> "api"],
     [FetchedAt |-> StartTime, Mode |-> "manual"]}

ArmorNames == <<"Oathplate Helmet", "Oathplate Chestplate", "Oathplate Legs">>

ReportStates ==
    {[Shale |-> sh, Shard |-> sd,
      Armors |-> [i \in 1..Len(as) |->
                     ArmorOption(IF i <= 3 THEN ArmorNames[i] ELSE "Armor", armorID1 + i, as[i])],
      FetchedAt |-> pv.FetchedAt, Mode |-> pv.Mode] :
        sh \in ShaleSamples, sd \in ShardSamples, as \in ArmorLists,
        pv \in ProvenanceSamples}

ReportTimes == {StartTime - 5, StartTime + cacheTTL, StartTime + cacheTTL + 1}

-----------------------------------------------------------------------------------------------------------------------------------------------------
(* the UI: RunTUI *)

\* A goroutine started by doFetch.  It holds no data of the program until
\* FetchStateFromAPI returns; the run records with it the field edits applied
\* since the fetch started that the snapshot still carries (a replacement of
\* the whole snapshot clears them).
Flight == [edits |-> {}]

\* The update a goroutine queues: the result of FetchStateFromAPI, with the
\* replies that gave it.
Update(fl, rs, r) == [edits |-> fl.edits, rs |-> rs, s |-> r.state, err |-> r.err]

Last(op, err) == [op |-> op, err |-> err]

Edited(f, field, val) ==
    [f EXCEPT !.edits = {e \in @ : e.field # field} \cup {[field |-> field, val |-> val]}]

Replaced(f) == [f EXCEPT !.edits = {}]

\* The status line refresh() leaves.
refreshStatus(st) ==
    IF st.FetchedAt # ZeroTime THEN "Fetched: ... | Age: ... | TTL: 20m"
    ELSE "Manual state (no fetch time)"

\* main(): the default state, replaced by the cached one when loadCache finds
\* one; then RunTUI draws the first report.
mainState(file) ==
    LET c == loadCache(file) IN IF c.ok THEN c.c.State ELSE defaultState

main ==
    /\ pc = "main"
    /\ pc' = "tui"
    /\ state' = mainState(cache)
    /\ report' = ComputeReport(state', now)
    /\ status' = refreshStatus(state')
    /\ last' = Last("main", IF loadCache(cache).ok THEN "" ELSE "no cache")
    /\ UNCHANGED <<cache, flights, queue, now, budget>>

\* An apply that leaves the mode tag as it finds it.
applySetKeepsMode(st, field, v) ==
    LET r == ApplyManualSet(st, field, v) IN [state |-> r.state, err |-> r.err]

\* The closure apply of RunTUI, parseGP having returned v: the state it leaves
\* and the error of ApplyManualSet.
applySet(st, field, v) ==
    LET r == ApplyManualSet(st, field, v)
    IN  IF r.err # "" THEN [state |-> r.state, err |-> r.err]
        ELSE [state |-> [r.state EXCEPT !.Mode = "manual"], err |-> ""]

\* Enter in an input widget: apply(field, text).
apply(field, text) ==
    /\ pc = "tui"
    /\ budget > 0
    /\ budget' = budget - 1
    /\ LET p == parseGP(text)
       IN  IF p.err
           THEN /\ status' = "Invalid value"
                /\ last' = Last("apply", "parse")
                /\ UNCHANGED <<state, report, flights, queue>>
           ELSE \E v \in p.vals :
                LET r == applySet(state, field, v)
                IN  /\ state' = r.state
                    /\ last' = Last("apply", r.err)
                    /\ IF r.err # ""
                       THEN /\ status' = "Set failed"
                            /\ UNCHANGED <<report, flights, queue>>
                       ELSE /\ report' = ComputeReport(state', now)
                            /\ status' = "Updated"
                            /\ flights' = [i \in 1..Len(flights) |->
                                              Edited(flights[i], field, v)]
                            /\ queue' = [i \in 1..Len(queue) |->
                                            Edited(queue[i], field, v)]
    /\ UNCHANGED <<pc, cache, now>>

\* F: doFetch starts a goroutine.
doFetch ==
    /\ pc = "tui"
    /\ budget > 0
    /\ budget' = budget - 1
    /\ status' = "Fetching..."
    /\ flights' = Append(flights, Flight)
    /\ last' = Last("doFetch", "")
    /\ UNCHANGED <<pc, state, cache, queue, now, report>>

\* The goroutine of doFetch: FetchStateFromAPI returns, the API having
\* answered rs, and the update is queued with app.QueueUpdateDraw.
fetchReturn(i, rs) ==
    /\ pc = "tui"
    /\ i \in 1..Len(flights)
    /\ queue' = Append(queue, Update(flights[i], rs, FetchStateFromAPI(rs, now)))
    /\ flights' = SubSeq(flights, 1, i - 1) \o SubSeq(flights, i + 1, Len(flights))
    /\ last' = Last("fetchReturn", "")
    /\ UNCHANGED <<pc, state, cache, now, status, report, budget>>

\* An update that takes what FetchStateFromAPI returned, failed or not.
updateStateAlways(st, u) == u.s

\* The state the queued update leaves: the fetched one, unless the fetch failed.
updateState(st, u) == IF u.err # "" THEN st ELSE u.s

\* The event loop runs the oldest queued update, os.WriteFile ending as w.
fetchUpdate(w) ==
    /\ pc = "tui"
    /\ queue # <<>>
    /\ LET u == Head(queue)
       IN  /\ state' = updateState(state, u)
           /\ last' = Last("fetchUpdate", u.err)
           /\ IF u.err # ""
              THEN /\ status' = "Fetch failed"
                   /\ queue' = Tail(queue)
                   /\ UNCHANGED <<cache, report, flights>>
              ELSE /\ cache' = saveCache(state', cache, w).file
                   /\ report' = ComputeReport(state', now)
                   /\ status' = refreshStatus(state')
                   /\ queue' = [i \in 1..(Len(queue) - 1) |-> Replaced(queue[i + 1])]
                   /\ flights' = [i \in 1..Len(flights) |-> Replaced(flights[i])]
    /\ UNCHANGED <<pc, now, budget>>

\* The state doLoad leaves: the cached one, when loadCache finds one.
loadState(st, file) ==
    LET c == loadCache(file) IN IF c.ok THEN c.c.State ELSE st

\* L: doLoad.
doLoad ==
    /\ pc = "tui"
    /\ budget > 0
    /\ budget' = budget - 1
    /\ state' = loadState(state, cache)
    /\ IF loadCache(cache).ok
       THEN /\ report' = ComputeReport(state', now)
            /\ status' = refreshStatus(state')
            /\ last' = Last("doLoad", "")
            /\ flights' = [i \in 1..Len(flights) |-> Replaced(flights[i])]
            /\ queue' = [i \in 1..Len(queue) |-> Replaced(queue[i])]
       ELSE /\ status' = "No cache found."
            /\ last' = Last("doLoad", "no cache")
            /\ UNCHANGED <<report, flights, queue>>
    /\ UNCHANGED <<pc, cache, now>>

\* S: doSave, os.WriteFile ending as w.
doSave(w) ==
    /\ pc = "tui"
    /\ budget > 0
    /\ budget' = budget - 1
    /\ LET r == saveCache(state, cache, w)
       IN  /\ cache' = r.file
           /\ status' = IF r.err # "" THEN "Save failed" ELSE "Saved cache."
           /\ last' = Last("doSave", r.err)
    /\ UNCHANGED <<pc, state, flights, queue, now, report>>

\* Q: doQuit stops the application.
doQuit ==
    /\ pc = "tui"
    /\ pc' = "quit"
    /\ last' = Last("doQuit", "")
    /\ UNCHANGED <<state, cache, flights, queue, now, status, report, budget>>

\* Time passes.
Tick(d) ==
    /\ pc = "tui"
    /\ budget > 0
    /\ budget' = budget - 1
    /\ now' = now + d
    /\ last' = Last("Tick", "")
    /\ UNCHANGED <<pc, state, cache, flights, queue, status, report>>

\* The results view before the first report is drawn.
NoReport == ComputeReport(ZeroState, StartTime)

Init ==
    /\ pc = "main"
    /\ state = defaultState
    /\ cache \in InitialCaches
    /\ flights = <<>>
    /\ queue = <<>>
    /\ now = StartTime
    /\ status = ""
    /\ report = NoReport
    /\ last = Last("init", "")
    /\ budget = MaxEvents

Next ==
    \/ main
    \/ \E field \in TuiFields, text \in TuiTexts : apply(field, text)
    \/ doFetch
    \/ \E i \in 1..Len(flights), rs \in ReplySeqs : fetchReturn(i, rs)
    \/ \E w \in WriteOutcomes : fetchUpdate(w)
    \/ doLoad
    \/ \E w \in WriteOutcomes : doSave(w)
    \/ doQuit
    \/ \E d \in TickSteps : Tick(d)

Spec == Init /\ [][Next]_vars

-----------------------------------------------------------------------------
(* a direct caller of ApplyManualSet *)

\* One call ApplyManualSet(&state, field, val); last keeps what the call was
\* given, the snapshot it found and the error it returned.
callApplyManualSet(field, val) ==
    /\ pc = "set"
    /\ pc' = "done"
    /\ LET r == ApplyManualSet(state, field, val)
       IN  /\ state' = r.state
           /\ last' = [op |-> "ApplyManualSet", err |-> r.err, field |-> field,
                       val |-> val, pre |-> state]
    /\ UNCHANGED <<cache, flights, queue, now, status, report, budget>>

InitSet ==
    /\ pc = "set"
    /\ state \in SetStates
    /\ cache = NoFile
    /\ flights = <<>>
    /\ queue = <<>>
    /\ now = StartTime
    /\ status = ""
    /\ report = NoReport
    /\ last = [op |-> "init", err |-> "", field |-> <<>>, val |-> I64(0), pre |-> state]
    /\ budget = 0

NextSet == \E field \in SetFields, val \in SetVals : callApplyManualSet(field, val)

SpecSet == InitSet /\ [][NextSet]_vars

-----------------------------------------------------------------------------
(* a direct caller of ComputeReport *)

\* One call ComputeReport(state), the clock reading now.
callComputeReport ==
    /\ pc = "report"
    /\ pc' = "done"
    /\ report' = ComputeReport(state, now)
    /\ last' = Last("ComputeReport", "")
    /\ UNCHANGED <<state, cache, flights, queue, now, status, budget>>

InitReport ==
    /\ pc = "report"
    /\ state \in ReportStates
    /\ cache = NoFile
    /\ flights = <<>>
    /\ queue = <<>>
    /\ now \in ReportTimes
    /\ status = ""
    /\ report = NoReport
    /\ last = Last("init", "")
    /\ budget = 0

NextReport == callComputeReport

SpecReport == InitReport /\ [][NextReport]_vars

-----------------------------------------------------------------------------
(* properties of ApplyManualSet, checked under SpecSet *)

TargetNames == <<S_shale, S_shard, S_armor1, S_armor2, S_armor3>>

\* The triple a target names in a snapshot (an armor target needs its slot).
TripleAt(st, k) ==
    IF k = 1 THEN st.Shale ELSE IF k = 2 THEN st.Shard ELSE st.Armors[k - 2].Price

\* The snapshot with the triple of target k replaced, all else as it is.
WithTripleAt(st, k, t) ==
    IF k = 1 THEN [st EXCEPT !.Shale = t]
    ELSE IF k = 2 THEN [st EXCEPT !.Shard = t]
    ELSE [st EXCEPT !.Armors[k - 2].Price = t]

\* The targets a snapshot can be addressed by: the armors only when it holds
\* three of them.
TargetsOf(st) == IF Len(st.Armors) >= 3 THEN 1..5 ELSE 1..2

\* The 20 recognized field paths, as far as the snapshot holds their target.
RecognizedFields(st) ==
    {TargetNames[k] : k \in TargetsOf(st)} \cup
    {Dotted(TargetNames[k], c) : k \in TargetsOf(st), c \in {S_high, S_low, S_avg}}

CalledSet == pc = "done" /\ last.op = "ApplyManualSet"

\* C1: ApplyManualSet fails for every field path outside the 20 recognized
\* forms (unknown target, suffix other than high/low/avg - the empty suffix
\* after a dot included -, more than one dot, an armor target of a list with
\* fewer than 3 armors), and a failure leaves the snapshot as it was.
C1_UnrecognizedFieldFails ==
    CalledSet =>
        /\ last.field \notin RecognizedFields(last.pre) => last.err # ""
        /\ last.err # "" => state = last.pre

\* C2: a successful ApplyManualSet on a target alone (an empty suffix after
\* the dot counts as none for the code) sets high, low and avg of that triple
\* to val; with the suffix .high, .low or .avg it sets that one member; the
\* snapshot is otherwise as it was: the other members, the other triples, the
\* armors' names and ids and their number, the fetch timestamp, the mode.
C2_SetChangesOnlyTheTarget ==
    CalledSet /\ last.err = "" =>
        \E k \in TargetsOf(last.pre) :
            LET old == TripleAt(last.pre, k)
                v == last.val
            IN  \/ /\ last.field \in {TargetNames[k], Dotted(TargetNames[k], <<>>)}
                   /\ state = WithTripleAt(last.pre, k, Triple(v, v, v))
                \/ /\ last.field = Dotted(TargetNames[k], S_high)
                   /\ state = WithTripleAt(last.pre, k, Triple(v, old.Low, old.Avg))
                \/ /\ last.field = Dotted(TargetNames[k], S_low)
                   /\ state = WithTripleAt(last.pre, k, Triple(old.High, v, old.Avg))
                \/ /\ last.field = Dotted(TargetNames[k], S_avg)
                   /\ state = WithTripleAt(last.pre, k, Triple(old.High, old.Low, v))

\* C2 witness: "armor2.low" was set on the fetched snapshot, whose fifteen
\* prices all differ.
C2_Witness ==
    /\ CalledSet
    /\ last.err = ""
    /\ last.field = Dotted(S_armor2, S_low)
    /\ last.pre = SavedState
    /\ state.Armors[2].Price = Triple(I64(1250), last.val, I64(1200))

-----------------------------------------------------------------------------
(* properties of the TUI, checked under Spec *)

\* C3: an edit the TUI applies successfully leaves the mode tag "manual",
\* whatever it was; an edit that fails (unparsable text, a field ApplyManualSet
\* refuses) leaves the snapshot, its mode included, as it was; and a snapshot
\* tagged "manual" keeps the tag until a fetch or a load of the cache (the one
\* main() does at startup, or L) replaces the snapshot.
C3_Step ==
    /\ last'.op = "apply" /\ last'.err = "" => state'.Mode = "manual"
    /\ last'.op = "apply" /\ last'.err # "" => state' = state
    /\ state.Mode = "manual" /\ state'.Mode # "manual" =>
           /\ last'.op \in {"fetchUpdate", "doLoad", "main"}
           /\ last'.err = ""

\* C3: every step of the TUI keeps the mode tag as C3_Step says: "manual"
\* after a successful edit, unchanged by a failed one, left only by a fetch
\* or a load.
C3_EditMakesManual == [][C3_Step]_vars

\* C3 witness: an edit was applied to a snapshot that a fetch of this run had
\* tagged "api".
C3_Witness ==
    /\ last.op = "apply"
    /\ last.err = ""
    /\ state.Mode = "manual"
    /\ state.FetchedAt >= StartTime

\* The triple FetchStateFromAPI makes of a reply holds its high and its low.
FromReply(t, r) == r.kind = "ok" /\ t.High = r.High /\ t.Low = r.Low

AllAnswered(rs) == \A i \in DOMAIN rs : rs[i].kind = "ok"

\* C4: a fetch is all-or-nothing.  While it runs it touches neither the
\* snapshot nor the cache file; FetchStateFromAPI fails exactly when one of
\* the five lookups does; the update of a failed fetch leaves the snapshot and
\* the cache file as they are; the update of a successful one replaces the
\* snapshot by one that holds the five triples of the replies, a non-zero
\* fetch timestamp and the mode "api".
C4_Step ==
    /\ last'.op \in {"doFetch", "fetchReturn"} => state' = state /\ cache' = cache
    /\ last'.op = "fetchReturn" =>
           LET u == queue'[Len(queue')]
           IN  (u.err = "") <=> (Len(u.rs) = 5 /\ AllAnswered(u.rs))
    /\ last'.op = "fetchUpdate" /\ ~AllAnswered(Head(queue).rs) =>
           /\ state' = state
           /\ cache' = cache
           /\ last'.err # ""
    /\ last'.op = "fetchUpdate" /\ AllAnswered(Head(queue).rs) =>
           LET rs == Head(queue).rs
           IN  /\ last'.err = ""
               /\ state'.Mode = "api"
               /\ state'.FetchedAt # ZeroTime
               /\ FromReply(state'.Shale, rs[1])
               /\ FromReply(state'.Shard, rs[2])
               /\ Len(state'.Armors) = 3
               /\ \A i \in 1..3 : FromReply(state'.Armors[i].Price, rs[i + 2])

\* C4: every step of the TUI is all-or-nothing about a fetch, as C4_Step
\* says.
C4_FetchAllOrNothing == [][C4_Step]_vars

\* C4 witness: a fetch whose first four lookups succeeded and whose fifth
\* failed has been handled, and the snapshot is still the manual default.
C4_Witness ==
    /\ last.op = "fetchUpdate"
    /\ last.err = "armor3 fetch"
    /\ state = defaultState

\* The avg a TUI field shows.
AvgOf(st, field) ==
    IF field = Dotted(S_shale, S_avg) THEN st.Shale.Avg
    ELSE IF field = Dotted(S_shard, S_avg) THEN st.Shard.Avg
    ELSE IF field = Dotted(S_armor1, S_avg) THEN st.Armors[1].Price.Avg
    ELSE IF field = Dotted(S_armor2, S_avg) THEN st.Armors[2].Price.Avg
    ELSE st.Armors[3].Price.Avg

\* The status lines refresh() can leave: neither speaks of an edit.
PlainStatuses == {refreshStatus(defaultState), refreshStatus(SavedState)}

\* C5: the update of a successful fetch does not silently discard an edit the
\* user applied while the fetch ran: the price is still in the snapshot, or
\* the status line says something else than the usual one.
C5_Step ==
    last'.op = "fetchUpdate" /\ last'.err = "" =>
        \/ \A e \in Head(queue).edits : AvgOf(state', e.field) = e.val
        \/ status' \notin PlainStatuses

\* C5: no step of the TUI silently discards an edit applied while a fetch
\* ran, as C5_Step says.
C5_EditSurvivesFetch == [][C5_Step]_vars

\* C10: the snapshot of the running program holds three armors.
C10_ThreeArmors == pc = "tui" => Len(state.Armors) = 3

-----------------------------------------------------------------------------
(* properties of ComputeReport, checked under SpecReport *)

CalledReport == pc = "done" /\ last.op = "ComputeReport"

TierLabels == <<"low", "avg", "high">>

TierOf(t, k) == IF k = 1 THEN t.Low ELSE IF k = 2 THEN t.Avg ELSE t.High

\* The largest quotient an int64 divided by 100 can have, and the smallest.
MaxTax == <<18350, 31457, 44564, 327>>
MinTax == Neg64(MaxTax)

\* a lies in -2^62 .. 2^62 - 1: doubling it does not leave int64.
DoubleFits(a) == a[4] < 2 ^ 14 \/ a[4] >= Base - 2 ^ 14

\* q is w / 100 with the quotient truncated toward zero: w = 100 q + r with
\* |r| < 100 and r of the sign of w.  q within MinTax..MaxTax and of the sign
\* of w keeps 100 q + r from wrapping, so the equation is one of integers.
IsTruncated(w, q) ==
    LET r == Sub64(w, MulConst64(100, q))
    IN  /\ ~Less64(MaxTax, q) /\ ~Less64(q, MinTax)
        /\ IsSmall(r)
        /\ IF IsNeg64(w) THEN ~Less64(I64(0), q) /\ ToInt(r) \in -99..0
           ELSE ~IsNeg64(q) /\ ToInt(r) \in 0..99

\* q is floor(w / 100): w = 100 q + r with 0 <= r < 100.
IsFloor(w, q) ==
    LET r == Sub64(w, MulConst64(100, q))
    IN  /\ ~Less64(MaxTax, q) /\ ~Less64(Add64(q, I64(1)), MinTax)
        /\ IsSmall(r)
        /\ ToInt(r) \in 0..99
        /\ IsNeg64(w) = IsNeg64(q)

IsSmallPrice(a) == IsSmall(a) /\ ToInt(a) \in 0..100000

CostOf(shale, shard, cost) ==
    /\ cost = Add64(MulConst64(2520, shale), MulConst64(450, shard))
    /\ IsSmallPrice(shale) /\ IsSmallPrice(shard) =>
           IsSmall(cost) /\ ToInt(cost) = 2520 * ToInt(shale) + 450 * ToInt(shard)

\* C7: the report echoes the shale and shard triples of the snapshot, and its
\* ingredient cost is, tier by tier, 2520 * shale[t] + 450 * shard[t] (in
\* int64), no tier mixed with another.
C7_IngredientCost ==
    CalledReport =>
        /\ report.Shale = state.Shale
        /\ report.Shard = state.Shard
        /\ \A k \in 1..3 :
               CostOf(TierOf(state.Shale, k), TierOf(state.Shard, k),
                      TierOf(report.IngredientCost, k))

\* C7 witness: shale (10, 20, 30) and shard (100, 150, 200) were reported to
\* cost (70200, 117900, 165600).
C7_Witness ==
    /\ CalledReport
    /\ state.Shale = Triple(I64(30), I64(10), I64(20))
    /\ state.Shard = Triple(I64(200), I64(100), I64(150))
    /\ report.IngredientCost = Triple(I64(165600), I64(70200), I64(117900))

AvgProfitOf(a) == a.Cases[2].Profit

HighSaleOf(a) == a.Sale.High

\* best is the entry of the list with the largest key, the first of them.
IsFirstMax(best, armors, Key(_)) ==
    \E i \in 1..Len(armors) :
        /\ best = armors[i]
        /\ \A j \in 1..Len(armors) : ~Less64(Key(armors[i]), Key(armors[j]))
        /\ \A j \in 1..(i - 1) : Less64(Key(armors[j]), Key(armors[i]))

\* C8: BestByAvgProfit is the armor of the report with the largest avg-case
\* profit and BestByHighSale the one with the largest high sale price, of
\* equals the first in the list; of an empty list both are the zero
\* ArmorReport.
C8_FirstMaximum ==
    CalledReport =>
        IF Len(report.Armors) = 0
        THEN /\ report.BestByAvgProfit = ZeroArmorReport
             /\ report.BestByHighSale = ZeroArmorReport
        ELSE /\ IsFirstMax(report.BestByAvgProfit, report.Armors, AvgProfitOf)
             /\ IsFirstMax(report.BestByHighSale, report.Armors, HighSaleOf)

\* C8 witness: the first two armors tie on both keys, no armor beats them,
\* and the first was picked twice.
C8_Witness ==
    /\ CalledReport
    /\ Len(report.Armors) = 3
    /\ AvgProfitOf(report.Armors[1]) = AvgProfitOf(report.Armors[2])
    /\ HighSaleOf(report.Armors[1]) = HighSaleOf(report.Armors[2])
    /\ Less64(AvgProfitOf(report.Armors[3]), AvgProfitOf(report.Armors[1]))
    /\ report.Armors[1] # report.Armors[2]
    /\ report.BestByAvgProfit = report.Armors[1]
    /\ report.BestByHighSale = report.Armors[1]

\* C9: the report calls the cache fresh exactly when the fetch timestamp is
\* not the zero time and its age is at most 20 minutes, 20 minutes included;
\* with the zero time the age is 0 and the cache not fresh; the mode tag plays
\* no part.
C9_Freshness ==
    CalledReport =>
        /\ report.FetchedAt = state.FetchedAt
        /\ report.CacheAge = IF state.FetchedAt = 0 THEN 0 ELSE now - state.FetchedAt
        /\ report.CacheFresh = (state.FetchedAt # 0 /\ now - state.FetchedAt <= 20 * 60)

\* C9 witness: a snapshot tagged "manual", fetched exactly 20 minutes ago,
\* was reported fresh.
C9_Witness ==
    /\ CalledReport
    /\ state.Mode = "manual"
    /\ state.FetchedAt # 0
    /\ now - state.FetchedAt = 20 * 60
    /\ report.CacheFresh

-----------------------------------------------------------------------------
(* a caller that asks for the report twice, checked under SpecTwice *)

\* The first call ComputeReport(state); last keeps the Report it returned, the
\* snapshot it was given and the clock reading of the call.
firstReport ==
    /\ pc = "report"
    /\ pc' = "again"
    /\ report' = ComputeReport(state, now)
    /\ last' = [op |-> "ComputeReport", err |-> "", first |-> report',
                pre |-> state, at |-> now]
    /\ UNCHANGED <<state, cache, flights, queue, now, status, budget>>

\* Time passes between the two calls.
elapse(d) ==
    /\ pc = "again"
    /\ budget > 0
    /\ budget' = budget - 1
    /\ now' = now + d
    /\ UNCHANGED <<pc, state, cache, flights, queue, status, report, last>>

\* ApplyManualSet(&state, field, val) between the two calls.  The Report the
\* first call returned holds copies (PriceTriple values, slices of its own).
editBetween(field, val) ==
    /\ pc = "again"
    /\ budget > 0
    /\ budget' = budget - 1
    /\ state' = ApplyManualSet(state, field, val).state
    /\ UNCHANGED <<pc, cache, flights, queue, now, status, report, last>>

\* The second call ComputeReport(state).
secondReport ==
    /\ pc = "again"
    /\ pc' = "done"
    /\ report' = ComputeReport(state, now)
    /\ last' = [last EXCEPT !.op = "ComputeReport again"]
    /\ UNCHANGED <<state, cache, flights, queue, now, status, budget>>

InitTwice ==
    /\ pc = "report"
    /\ state \in SetStates
    /\ cache = NoFile
    /\ flights = <<>>
    /\ queue = <<>>
    /\ now = StartTime
    /\ status = ""
    /\ report = NoReport
    /\ last = [op |-> "init", err |-> "", first |-> NoReport, pre |-> state,
               at |-> StartTime]
    /\ budget = MaxEvents

NextTwice ==
    \/ firstReport
    \/ \E d \in TickSteps : elapse(d)
    \/ \E field \in TuiFields \cup {S_shale}, val \in SetVals : editBetween(field, val)
    \/ secondReport

SpecTwice == InitTwice /\ [][NextTwice]_vars

CalledTwice == pc = "done" /\ last.op = "ComputeReport again"

\* C11: ComputeReport is deterministic: a second call on a snapshot identical
\* to the one of the first call (prices, armors, fetch timestamp and mode tag)
\* returns a Report identical in every field, CacheAge and CacheFresh
\* included.
C11_SameInputsSameReport ==
    CalledTwice /\ state = last.pre => report = last.first

-----------------------------------------------------------------------------
(* properties of the interactive edits, checked under Spec *)

NonNegativeTriple(t) == ~IsNeg64(t.High) /\ ~IsNeg64(t.Low) /\ ~IsNeg64(t.Avg)

\* C12: the TUI rejects a text that parses to a negative number, so the
\* snapshot, which starts with non-negative prices (the default one, a cached
\* one) and is fetched with non-negative prices, never holds a negative price.
C12_PricesStayNonNegative ==
    /\ NonNegativeTriple(state.Shale)
    /\ NonNegativeTriple(state.Shard)
    /\ \A i \in 1..Len(state.Armors) : NonNegativeTriple(state.Armors[i].Price)

-----------------------------------------------------------------------------
(* a direct caller of parseGP, checked under SpecParse *)

\* Texts a user can type: numbers, each alone and with a suffix, as typed and
\* with blanks around it, and some more.
ParseBodies ==
    {<<"1", "2", "5">>, <<"1", ".", "2", "5">>, <<"2">>, <<"2", ".", "5">>,
     <<"-", "2", ".", "5">>, <<".", "5">>, <<>>, <<"a", "b", "c">>,
     <<"1", ".", "2", ".", "3">>, <<"1", "e", "3">>, <<"i", "n", "f">>, <<"n", "a", "n">>,
     <<"1", ".", ".">>, <<"+", "7">>, <<"1", ",", "2">>, <<"1", " ", "2">>}

ParseSuffixes == {<<>>, <<"k">>, <<"m">>, <<"K">>}

ParseMore ==
    {<<"1", ",", "2", "5", "0", ",", "0", "0", "0">>, <<"2", "b">>, <<" ", "2", "B">>, <<"0", ".", "1", "b">>,
     <<"1", ",", "2", "5", "0", ".", "5", "k">>, <<"k", "k">>, <<"e", "3">>, <<"1", "e">>,
     <<"-", "i", "n", "f">>, <<"i", "n", "f", "i", "n", "i", "t", "y">>, <<"-">>, <<".">>}

ParseTexts ==
    {b \o x : b \in ParseBodies, x \in ParseSuffixes} \cup
    {<<" ">> \o b \o x \o <<" ", "\t">> : b \in ParseBodies, x \in ParseSuffixes} \cup
    ParseMore

\* One call parseGP(text); last keeps the text, the error (as "invalid") and
\* the value returned.
callParseGP ==
    /\ pc = "parse"
    /\ pc' = "done"
    /\ LET r == parseGP(last.text)
       IN  \E v \in r.vals :
               last' = [op |-> "parseGP", err |-> IF r.err THEN "invalid" ELSE "",
                        text |-> last.text, val |-> v]
    /\ UNCHANGED <<state, cache, flights, queue, now, status, report, budget>>

InitParse ==
    /\ pc = "parse"
    /\ state = defaultState
    /\ cache = NoFile
    /\ flights = <<>>
    /\ queue = <<>>
    /\ now = StartTime
    /\ status = ""
    /\ report = NoReport
    /\ \E text \in ParseTexts :
           last = [op |-> "init", err |-> "", text |-> text, val |-> I64(0)]
    /\ budget = 0

NextParse == callParseGP

SpecParse == InitParse /\ [][NextParse]_vars

CalledParse == pc = "done" /\ last.op = "parseGP"

\* The text without the blanks around it, in lower case, without commas.
Cleaned(text) == RemoveAll(TrimSpace(ToLower(text)), ",")

SuffixOf(s) == IF s # <<>> /\ s[Len(s)] \in {"k", "m", "b"} THEN s[Len(s)] ELSE ""

MultiplierOf(s) ==
    CASE SuffixOf(s) = "k" -> 1000
      [] SuffixOf(s) = "m" -> 1000000
      [] SuffixOf(s) = "b" -> 1000000000
      [] OTHER -> 1

NumberOf(s) == IF SuffixOf(s) = "" THEN s ELSE SubSeq(s, 1, Len(s) - 1)

Unsigned(s) == IF s # <<>> /\ s[1] \in {"+", "-"} THEN Tail(s) ELSE s

\* A plain decimal number: digits, at least one, with at most one decimal
\* point among them, after at most one sign.
IsPlainDecimal(s) ==
    LET u == Unsigned(s)
    IN  /\ \A i \in 1..Len(u) : u[i] \in Digits \cup {"."}
        /\ Cardinality({i \in 1..Len(u) : u[i] = "."}) <= 1
        /\ \E i \in 1..Len(u) : u[i] \in Digits

\* The plain decimal number s times m, rounded to the nearest integer, halves
\* away from zero.
RoundedTimes(s, m) ==
    LET u == Unsigned(s)
        ds == SelectSeq(u, LAMBDA c : c \in Digits)
        n == DigitsVal(ds, 1, Len(ds) + 1, 0)
        dots == {i \in 1..Len(u) : u[i] = "."}
        scale == IF dots = {} THEN 1 ELSE 10 ^ (Len(u) - CHOOSE i \in dots : TRUE)
        mag == IF dots = {} THEN n * m ELSE (2 * n * m + scale) \div (2 * scale)
    IN  IF s[1] = "-" THEN -mag ELSE mag

\* C13: parseGP returns, for a plain decimal number with at most one suffix
\* k / m / b (blanks around, capitals and commas set aside), the number times
\* 1,000 / 1,000,000 / 1,000,000,000 rounded to the nearest integer, halves
\* away from zero; for every other text (empty, a bare suffix, two decimal
\* points, letters, an exponent, "inf", "nan") it fails.
C13_PlainDecimalsOnly ==
    CalledParse =>
        LET c == Cleaned(last.text)
        IN  IF IsPlainDecimal(NumberOf(c))
            THEN /\ last.err = ""
                 /\ last.val = I64(RoundedTimes(NumberOf(c), MultiplierOf(c)))
            ELSE last.err # ""

-----------------------------------------------------------------------------
(* the best case of an armor, checked under SpecReport *)

ProfitOfCase(c) == c.Profit

\* C14: for every armor of the report, BestCase is one of its three cases
\* (low, avg, high, in that order in Cases), its profit is the largest of the
\* three, and of the cases with that profit it is the first.
C14_BestCaseFirstMaximum ==
    CalledReport =>
        \A i \in 1..Len(report.Armors) :
            LET a == report.Armors[i]
            IN  /\ Len(a.Cases) = 3
                /\ \A k \in 1..3 : a.Cases[k].SaleLabel = TierLabels[k]
                /\ IsFirstMax(a.BestCase, a.Cases, ProfitOfCase)

\* C14 witness: an armor was reported whose avg and high cases share the
\* largest profit, the low case below them, and its best case is the avg one.
C14_Witness ==
    /\ CalledReport
    /\ \E i \in 1..Len(report.Armors) :
           LET a == report.Armors[i]
           IN  /\ a.Cases[2].Profit = a.Cases[3].Profit
               /\ Less64(a.Cases[1].Profit, a.Cases[2].Profit)
               /\ a.BestCase = a.Cases[2]
               /\ a.BestCase.SaleLabel = "avg"

-----------------------------------------------------------------------------
(* the range of the report's figures, checked under SpecReport *)

NonNegativePrices(st) ==
    /\ NonNegativeTriple(st.Shale)
    /\ NonNegativeTriple(st.Shard)
    /\ \A i \in 1..Len(st.Armors) : NonNegativeTriple(st.Armors[i].Price)

\* C15: the int64 arithmetic of ComputeReport does not wrap around: for a
\* snapshot whose prices are all non-negative, the ingredient cost of each
\* tier is non-negative and at least each of its two terms 2520 * shale and
\* 450 * shard, and the tax of each case lies between 0 and the sale price.
C15_NoWrapAround ==
    CalledReport /\ NonNegativePrices(state) =>
        /\ \A k \in 1..3 :
               LET cost == TierOf(report.IngredientCost, k)
               IN  /\ ~IsNeg64(cost)
                   /\ ~Less64(cost, MulConst64(2520, TierOf(state.Shale, k)))
                   /\ ~Less64(cost, MulConst64(450, TierOf(state.Shard, k)))
        /\ \A i \in 1..Len(report.Armors) : \A k \in 1..3 :
               LET c == report.Armors[i].Cases[k]
               IN  ~IsNeg64(c.TaxPaid) /\ ~Less64(c.SalePrice, c.TaxPaid)

====
